---- MODULE Spec2Model ----
(***************************************************************************)
(* Model of app/app.py: a Flask application with one route, "/", whose     *)
(* view returns a fixed JSON greeting, and a __main__ block that reads     *)
(* PORT from the environment and serves on 0.0.0.0.                        *)
(*                                                                         *)
(* The module's top-level statements are the steps of the start-up        *)
(* (CreateApp, RegisterRoute, MainGuard, ReadEnv, ParseInt, Run); once    *)
(* the application serves, requests are accepted, dispatched through the  *)
(* url map and closed, several at a time.                                 *)
(***************************************************************************)
EXTENDS Integers, Sequences, FiniteSets, Bags, TLC

VARIABLES
    runAsMain,   \* __name__ == '__main__' (python app.py) or imported (Gunicorn)
    environ,     \* os.environ restricted to PORT: a function on a subset of {"PORT"}
    pc,          \* position in the module's top-level code / in app.run
    url_map,     \* app.url_map: the set of registered rules
    portRaw,     \* the value os.environ.get('PORT', 5000) returned, or NotRead
    portArg,     \* the value int(...) returned, or NotRead
    listener,    \* the bound listening socket [host, port], or NoSocket
    exitStatus,  \* the process's exit status, meaningful once pc = "exited"
    exitCause,   \* what ended the process: "none", "ValueError", "bind", "signal"
    inflight,    \* bag of requests being handled by the serving threads
    handled      \* number of requests answered so far (capped at MaxHandled)

vars == <<runAsMain, environ, pc, url_map, portRaw, portArg, listener,
          exitStatus, exitCause, inflight, handled>>

-----------------------------------------------------------------------------
(* Bounds of the model *)

MaxInFlight == 2
MaxHandled == 3

-----------------------------------------------------------------------------
(* Python values that flow through line 19 *)

PyStr(s) == [tag |-> "str", s |-> s]
PyInt(n) == [tag |-> "int", n |-> n]
NotRead == [tag |-> "unset"]
NoSocket == [host |-> "none", port |-> 0]

DefaultPort == 5000
BindHost == "0.0.0.0"

\* The TCP port numbers bind() accepts; 0 asks the system for an ephemeral port.
MaxPort == 2^16 - 1
EphemeralPorts == {32768, 49152}

\* The values of PORT the model starts from, as sequences of characters.
PortStrings ==
    { <<"8","0","8","0">>,         \* the spec's own scenario
      <<>>,                        \* PORT= (empty)
      <<"a","b","c">>,
      <<" ","8","0"," ">>,         \* int() strips white space; a privileged port
      <<"0">>,
      <<"7","0","0","0","0">>,     \* an integer that is no port number
      <<"-","1">>,
      <<"8","_","0","8","0">>,     \* int() accepts single underscores
      <<"8","0","8","0","x">> }

Environments ==
    { [k \in {} |-> PyStr(<<>>)] } \cup { [k \in {"PORT"} |-> PyStr(s)] : s \in PortStrings }

-----------------------------------------------------------------------------
(* int(): Python's conversion of the value read from the environment.      *)
(* An int passes through; a str is stripped of white space, may carry one *)
(* sign, and must then be decimal digits, single underscores allowed      *)
(* between digits. Anything else raises ValueError.                       *)

Digits == {"0","1","2","3","4","5","6","7","8","9"}
WhiteSpace == {" ", "\t", "\n"}

DigitValue(c) ==
    CASE c = "0" -> 0 [] c = "1" -> 1 [] c = "2" -> 2 [] c = "3" -> 3 [] c = "4" -> 4
      [] c = "5" -> 5 [] c = "6" -> 6 [] c = "7" -> 7 [] c = "8" -> 8 [] c = "9" -> 9

RECURSIVE lstrip(_)
lstrip(s) == IF s # <<>> /\ Head(s) \in WhiteSpace THEN lstrip(Tail(s)) ELSE s

RECURSIVE rstrip(_)
rstrip(s) ==
    IF s # <<>> /\ s[Len(s)] \in WhiteSpace THEN rstrip(SubSeq(s, 1, Len(s) - 1)) ELSE s

strip(s) == rstrip(lstrip(s))

IsDigitString(d) ==
    /\ d # <<>>
    /\ d[1] \in Digits
    /\ d[Len(d)] \in Digits
    /\ \A i \in 1..Len(d) : d[i] \in Digits \cup {"_"}
    /\ \A i \in 1..(Len(d) - 1) : ~(d[i] = "_" /\ d[i + 1] = "_")

RECURSIVE DigitsValue(_, _)
DigitsValue(d, acc) ==
    IF d = <<>> THEN acc
    ELSE IF Head(d) = "_" THEN DigitsValue(Tail(d), acc)
    ELSE DigitsValue(Tail(d), 10 * acc + DigitValue(Head(d)))

ValueError == [ok |-> FALSE, n |-> 0]
Returned(n) == [ok |-> TRUE, n |-> n]

int_of_str(s) ==
    LET t == strip(s)
        signed == t # <<>> /\ Head(t) \in {"+", "-"}
        d == IF signed THEN Tail(t) ELSE t
    IN  IF ~IsDigitString(d) THEN ValueError
        ELSE IF signed /\ Head(t) = "-" THEN Returned(0 - DigitsValue(d, 0))
        ELSE Returned(DigitsValue(d, 0))

\* Mutant: a value that does not parse yields the default instead of raising.
int_or_default(x) ==
    IF x.tag = "int" THEN Returned(x.n)
    ELSE IF int_of_str(x.s).ok THEN int_of_str(x.s) ELSE Returned(5000)

int(x) == IF x.tag = "int" THEN Returned(x.n) ELSE int_of_str(x.s)

\* Mutant: another default than the one the caller passes.
environ_get_default_8080(key, default) ==
    IF key \in DOMAIN environ THEN environ[key] ELSE PyInt(8080)

\* os.environ.get(key, default)
environ_get(key, default) ==
    IF key \in DOMAIN environ THEN environ[key] ELSE default

-----------------------------------------------------------------------------
(* The application object: Flask(__name__) and @app.route('/')             *)

\* A request path is the sequence of its segments: "/" is <<>>,
\* "/static/app.js" is <<"static", "app.js">>.
RootPath == <<>>
Paths == { RootPath, <<"unknown">>, <<"static">>, <<"static", "app.js">> }
Methods == {"GET", "HEAD", "OPTIONS", "POST", "DELETE"}

\* Flask(__name__): static_folder defaults to "static", so the constructor
\* registers the rule /static/<path:filename> with the endpoint "static".
StaticRule == [rule |-> "/static/<path:filename>", endpoint |-> "static",
               methods |-> {"GET", "HEAD", "OPTIONS"}]

Flask == { StaticRule }

\* Mutant: the route also accepts POST (methods=['GET', 'POST']).
RouteMethodsWithPost == {"GET", "POST"}

\* @app.route('/') names no methods: the rule is registered for GET alone,
\* to which add_url_rule adds HEAD (with GET) and OPTIONS (automatic).
RouteMethods == {"GET"}

add_url_rule(map, rule, endpoint, methods) ==
    map \cup { [rule |-> rule, endpoint |-> endpoint,
                methods |-> methods \cup (IF "GET" \in methods THEN {"HEAD"} ELSE {})
                                    \cup {"OPTIONS"}] }

\* Mutant: the view's rule is a catch-all ('/<path:p>' beside '/').
RuleMatchesAnyPath(r, path) ==
    CASE r.rule = "/" -> TRUE
      [] r.rule = "/static/<path:filename>" -> Len(path) >= 2 /\ path[1] = "static"
      [] OTHER -> FALSE

\* Whether a rule's pattern matches a path.
RuleMatches(r, path) ==
    CASE r.rule = "/" -> path = RootPath
      [] r.rule = "/static/<path:filename>" -> Len(path) >= 2 /\ path[1] = "static"
      [] OTHER -> FALSE

-----------------------------------------------------------------------------
(* jsonify: the mapping serialised to a JSON document, and its reading back *)

\* The dict literal of lines 11-13, as the sequence of its items.
Payload == << <<"message", "Hello from a Confidential GKE container!">> >>

JStr(s) == [tok |-> "string", s |-> s]
JPunct(c) == [tok |-> "punct", s |-> c]

RECURSIVE dumps_items(_)
dumps_items(items) ==
    IF items = <<>> THEN <<>>
    ELSE <<JStr(items[1][1]), JPunct(":"), JStr(items[1][2])>>
         \o (IF Len(items) > 1 THEN <<JPunct(",")>> ELSE <<>>)
         \o dumps_items(Tail(items))

dumps(items) == <<JPunct("{")>> \o dumps_items(items) \o <<JPunct("}")>>

NoResponse == [status |-> 0, mimetype |-> "", data |-> <<>>, allow |-> {}]

Response(status, mimetype, data, allow) ==
    [status |-> status, mimetype |-> mimetype, data |-> data, allow |-> allow]

jsonify(items) == Response(200, "application/json", dumps(items) \o <<JPunct("\n")>>, {})

-----------------------------------------------------------------------------
(* The view of lines 6-13 and the framework's dispatch of a request        *)

\* Mutant: the view returns json.dumps(...) itself, which Flask sends as text/html.
hello_returns_str == Response(200, "text/html", dumps(Payload), {})

\* Mutant: the view appends a request counter to the document: shared state.
hello_counting ==
    Response(200, "application/json",
             dumps(Payload \o << <<"count", ToString(handled)>> >>) \o <<JPunct("\n")>>, {})

hello_confidential_world == jsonify(Payload)

HtmlPage(title) == <<[tok |-> "html", s |-> title]>>
NotFound == Response(404, "text/html", HtmlPage("Not Found"), {})
MethodNotAllowed(allow) == Response(405, "text/html", HtmlPage("Method Not Allowed"), allow)

\* The static view serves a file of the folder "static" beside the module;
\* the repository has no such folder, so the view raises NotFound.
send_static_file == NotFound

view_functions(endpoint) ==
    CASE endpoint = "hello_confidential_world" -> hello_confidential_world
      [] endpoint = "static" -> send_static_file

\* The body of the answer to a HEAD request is not sent.
ForMethod(method, resp) == IF method = "HEAD" THEN [resp EXCEPT !.data = <<>>] ELSE resp

\* Flask.full_dispatch_request on the url map: [resp, called], called the
\* view function that ran, "none" when the framework answered by itself.
full_dispatch_request(method, path) ==
    LET matching == { r \in url_map : RuleMatches(r, path) }
        allowed == UNION { r.methods : r \in matching }
        hit == { r \in matching : method \in r.methods }
    IN  IF matching = {} THEN [resp |-> NotFound, called |-> "none"]
        ELSE IF hit = {} THEN [resp |-> MethodNotAllowed(allowed), called |-> "none"]
        ELSE IF method = "OPTIONS"
             THEN [resp |-> Response(200, "text/html", <<>>, allowed), called |-> "none"]
        ELSE LET r == CHOOSE r \in hit : TRUE
             IN  [resp |-> ForMethod(method, view_functions(r.endpoint)),
                  called |-> r.endpoint]

-----------------------------------------------------------------------------
(* Start-up: the module's top-level statements                             *)

Init ==
    /\ runAsMain \in BOOLEAN
    /\ environ \in Environments
    /\ pc = "load"
    /\ url_map = {}
    /\ portRaw = NotRead
    /\ portArg = NotRead
    /\ listener = NoSocket
    /\ exitStatus = 0
    /\ exitCause = "none"
    /\ inflight = EmptyBag
    /\ handled = 0

\* line 4: app = Flask(__name__)
CreateApp ==
    /\ pc = "load"
    /\ url_map' = Flask
    /\ pc' = "app"
    /\ UNCHANGED <<runAsMain, environ, portRaw, portArg, listener, exitStatus,
                   exitCause, inflight, handled>>

\* lines 6-13: @app.route('/') def hello_confidential_world
RegisterRoute ==
    /\ pc = "app"
    /\ url_map' = add_url_rule(url_map, "/", "hello_confidential_world", RouteMethods)
    /\ pc' = "defined"
    /\ UNCHANGED <<runAsMain, environ, portRaw, portArg, listener, exitStatus,
                   exitCause, inflight, handled>>

\* Mutant: the start-up is not guarded by __name__ == '__main__'.
AlwaysMain == TRUE

\* line 15: if __name__ == '__main__'
IsMain == runAsMain

MainGuard ==
    /\ pc = "defined"
    /\ pc' = IF IsMain THEN "main" ELSE "imported"
    /\ UNCHANGED <<runAsMain, environ, url_map, portRaw, portArg, listener,
                   exitStatus, exitCause, inflight, handled>>

\* Mutant: the port is hard-coded, PORT is not consulted.
ReadEnvIgnored ==
    /\ pc = "main"
    /\ portRaw' = PyInt(DefaultPort)
    /\ pc' = "int"
    /\ UNCHANGED <<runAsMain, environ, url_map, portArg, listener, exitStatus,
                   exitCause, inflight, handled>>

\* line 19: os.environ.get('PORT', 5000)
ReadEnv ==
    /\ pc = "main"
    /\ portRaw' = environ_get("PORT", PyInt(DefaultPort))
    /\ pc' = "int"
    /\ UNCHANGED <<runAsMain, environ, url_map, portArg, listener, exitStatus,
                   exitCause, inflight, handled>>

\* line 19: int(...); a ValueError is not caught and ends the process
\* with a traceback and status 1.
ParseInt ==
    /\ pc = "int"
    /\ LET r == int(portRaw)
       IN  IF r.ok
           THEN /\ portArg' = PyInt(r.n)
                /\ pc' = "run"
                /\ UNCHANGED <<exitStatus, exitCause>>
           ELSE /\ pc' = "exited"
                /\ exitStatus' = 1
                /\ exitCause' = "ValueError"
                /\ UNCHANGED portArg
    /\ UNCHANGED <<runAsMain, environ, url_map, portRaw, listener, inflight, handled>>

\* Mutant: a failed bind is swallowed and the program ends normally.
RunSwallowingBindError ==
    /\ pc = "run"
    /\ \E bound \in BOOLEAN, eph \in EphemeralPorts :
          IF bound /\ portArg.n \in 0..MaxPort
          THEN /\ listener' = [host |-> BindHost,
                               port |-> IF portArg.n = 0 THEN eph ELSE portArg.n]
               /\ pc' = "listening"
               /\ UNCHANGED <<exitStatus, exitCause>>
          ELSE /\ pc' = "exited"
               /\ exitStatus' = 0
               /\ exitCause' = "bind"
               /\ UNCHANGED listener
    /\ UNCHANGED <<runAsMain, environ, url_map, portRaw, portArg, inflight, handled>>

\* line 19: app.run(host='0.0.0.0', port=...): the server socket is bound
\* and the call blocks serving, or the bind fails and the process ends with
\* status 1. A number outside 0..MaxPort is refused by bind(); inside it the
\* system decides (address in use, permission denied).
Run ==
    /\ pc = "run"
    /\ \E bound \in BOOLEAN, eph \in EphemeralPorts :
          IF bound /\ portArg.n \in 0..MaxPort
          THEN /\ listener' = [host |-> BindHost,
                               port |-> IF portArg.n = 0 THEN eph ELSE portArg.n]
               /\ pc' = "listening"
               /\ UNCHANGED <<exitStatus, exitCause>>
          ELSE /\ pc' = "exited"
               /\ exitStatus' = 1
               /\ exitCause' = "bind"
               /\ UNCHANGED listener
    /\ UNCHANGED <<runAsMain, environ, url_map, portRaw, portArg, inflight, handled>>

-----------------------------------------------------------------------------
(* Serving: by app.run's threaded server, or by the WSGI server that        *)
(* imported the module                                                     *)

Serving == pc \in {"listening", "imported"}

Request(method, path) ==
    [method |-> method, path |-> path, stage |-> "accepted",
     resp |-> NoResponse, called |-> "none"]

\* A request arrives and a thread takes it.
Accept ==
    /\ Serving
    /\ BagCardinality(inflight) < MaxInFlight
    /\ handled + BagCardinality(inflight) < MaxHandled
    /\ \E m \in Methods, p \in Paths :
          inflight' = inflight (+) SetToBag({Request(m, p)})
    /\ UNCHANGED <<runAsMain, environ, pc, url_map, portRaw, portArg, listener,
                   exitStatus, exitCause, handled>>

\* Mutant: an error response takes the server down with it.
RespondCrashingOnError ==
    /\ Serving
    /\ \E r \in BagToSet(inflight) :
          /\ r.stage = "accepted"
          /\ LET d == full_dispatch_request(r.method, r.path)
             IN  IF d.resp.status >= 400
                 THEN /\ pc' = "exited"
                      /\ exitStatus' = 1
                      /\ exitCause' = "request"
                      /\ listener' = NoSocket
                      /\ inflight' = EmptyBag
                 ELSE /\ inflight' = (inflight (-) SetToBag({r})) (+)
                          SetToBag({[r EXCEPT !.stage = "responded", !.resp = d.resp,
                                               !.called = d.called]})
                      /\ UNCHANGED <<pc, exitStatus, exitCause, listener>>
    /\ UNCHANGED <<runAsMain, environ, url_map, portRaw, portArg, handled>>

\* The thread dispatches its request and writes the response.
Respond ==
    /\ Serving
    /\ \E r \in BagToSet(inflight) :
          /\ r.stage = "accepted"
          /\ LET d == full_dispatch_request(r.method, r.path)
             IN  inflight' = (inflight (-) SetToBag({r})) (+)
                     SetToBag({[r EXCEPT !.stage = "responded", !.resp = d.resp,
                                          !.called = d.called]})
    /\ UNCHANGED <<runAsMain, environ, pc, url_map, portRaw, portArg, listener,
                   exitStatus, exitCause, handled>>

\* The connection is closed.
Close ==
    /\ Serving
    /\ \E r \in BagToSet(inflight) :
          /\ r.stage = "responded"
          /\ inflight' = inflight (-) SetToBag({r})
    /\ handled' = handled + 1
    /\ UNCHANGED <<runAsMain, environ, pc, url_map, portRaw, portArg, listener,
                   exitStatus, exitCause>>

\* The process blocked in app.run is ended from outside: SIGINT, which the
\* server turns into a return (status 0), or SIGTERM (status 128 + 15).
Terminate ==
    /\ pc = "listening"
    /\ pc' = "exited"
    /\ exitCause' = "signal"
    /\ \E s \in {0, 143} : exitStatus' = s
    /\ listener' = NoSocket
    /\ inflight' = EmptyBag
    /\ UNCHANGED <<runAsMain, environ, url_map, portRaw, portArg, handled>>

Next ==
    \/ CreateApp
    \/ RegisterRoute
    \/ MainGuard
    \/ ReadEnv
    \/ ParseInt
    \/ Run
    \/ Accept
    \/ Respond
    \/ Close
    \/ Terminate

Spec == Init /\ [][Next]_vars

-----------------------------------------------------------------------------
(* Properties                                                              *)

Responded == { r \in BagToSet(inflight) : r.stage = "responded" }

\* A client's reading of a JSON object document: [ok, value], value the
\* mapping it denotes; ok is FALSE when the tokens are not an object of
\* string members.
NoMapping == [k \in {} |-> ""]
Invalid == [ok |-> FALSE, value |-> NoMapping]

RECURSIVE loads_members(_, _)
loads_members(toks, acc) ==
    IF Len(toks) >= 3 /\ toks[1].tok = "string" /\ toks[2] = JPunct(":")
                      /\ toks[3].tok = "string"
    THEN LET acc2 == [k \in DOMAIN acc \cup {toks[1].s} |->
                          IF k = toks[1].s THEN toks[3].s ELSE acc[k]]
             rest == SubSeq(toks, 4, Len(toks))
         IN  IF rest = <<>> THEN [ok |-> TRUE, value |-> acc2]
             ELSE IF rest[1] = JPunct(",") /\ Len(rest) > 1
                  THEN loads_members(Tail(rest), acc2)
             ELSE Invalid
    ELSE Invalid

loads(data) ==
    LET body == IF data # <<>> /\ data[Len(data)] = JPunct("\n")
                THEN SubSeq(data, 1, Len(data) - 1) ELSE data
    IN  IF Len(body) >= 2 /\ body[1] = JPunct("{") /\ body[Len(body)] = JPunct("}")
        THEN IF Len(body) = 2 THEN [ok |-> TRUE, value |-> NoMapping]
             ELSE loads_members(SubSeq(body, 2, Len(body) - 1), NoMapping)
        ELSE Invalid

Greeting == [message |-> "Hello from a Confidential GKE container!"]
IsGreeting(resp) == loads(resp.data) = [ok |-> TRUE, value |-> Greeting]
PortSet == "PORT" \in DOMAIN environ

\* C1: every answer to GET "/" has status 200, a JSON content type, and a
\* body that read as JSON is exactly {"message": "Hello from a Confidential
\* GKE container!"}.
C1_GetRootIsGreeting ==
    \A r \in Responded :
        (r.method = "GET" /\ r.path = RootPath) =>
            /\ r.resp.status = 200
            /\ r.resp.mimetype = "application/json"
            /\ IsGreeting(r.resp)
            /\ DOMAIN loads(r.resp.data).value = {"message"}

C1_Witness ==
    /\ pc = "listening"
    /\ \E r \in Responded : r.method = "GET" /\ r.path = RootPath /\ r.resp.status = 200

C3_DefaultPort ==
    (runAsMain /\ ~PortSet /\ pc = "listening") => listener.port = 5000

C3_Witness == runAsMain /\ ~PortSet /\ pc = "listening" /\ listener.port = 5000

\* The values of PORT that int() does not accept.
UnparsablePorts == { <<>>, <<"a","b","c">>, <<"8","0","8","0","x">> }
PortUnparsable == PortSet /\ environ["PORT"].s \in UnparsablePorts
NeverServed == listener = NoSocket /\ inflight = EmptyBag /\ handled = 0

\* C4 as stated: with PORT set to a value that is no integer, start-up does
\* not fail: the port falls back to 5000.
C4_FallsBackToDefault ==
    (runAsMain /\ PortUnparsable /\ pc \in {"run", "listening", "exited"}) =>
        /\ portArg = PyInt(5000)
        /\ exitCause # "ValueError"

\* C4 amended: run as the main program with PORT set to a value that is no
\* integer, the process never binds a port nor serves a request: int()
\* raises ValueError and the process ends with status 1.
C4_UnparsablePortIsFatal ==
    (runAsMain /\ PortUnparsable) =>
        /\ pc \notin {"run", "listening"}
        /\ portArg = NotRead
        /\ NeverServed
        /\ (pc = "exited" => exitStatus = 1 /\ exitCause = "ValueError")

C4_Witness ==
    /\ PortSet /\ environ["PORT"].s = <<"a","b","c">>
    /\ pc = "exited" /\ exitCause = "ValueError"

\* C5 as stated: a failed bind ends the process with a non-zero status before
\* it ever listens or serves, and no other failure ends the process.
C5_BindIsTheOnlyFailure ==
    /\ (exitCause = "bind") => (pc = "exited" /\ exitStatus # 0 /\ NeverServed)
    /\ (pc = "exited" /\ exitCause # "signal") => exitCause = "bind"

\* C5 amended: a failed bind ends the process with a non-zero status before
\* it ever listens or serves; the one other failure that ends the process
\* is the ValueError of a PORT value that is no integer, also with a
\* non-zero status and before any bind.
C5_StartupFailures ==
    /\ (exitCause = "bind") => (pc = "exited" /\ exitStatus # 0 /\ NeverServed)
    /\ (exitCause = "ValueError") =>
           (pc = "exited" /\ exitStatus # 0 /\ NeverServed /\ portArg = NotRead)
    /\ (pc = "exited") => exitCause \in {"bind", "ValueError", "signal"}
    /\ (pc = "exited" /\ exitCause # "signal") => runAsMain

C5_Witness ==
    /\ pc = "exited" /\ exitCause = "bind" /\ exitStatus = 1
    /\ portArg = PyInt(70000)

UnderStatic(path) == Len(path) >= 2 /\ path[1] = "static"

\* C6 as stated: a request to any path other than "/" gets the not-found
\* response, status 404, and not the greeting.
C6_OtherPathsAre404 ==
    \A r \in Responded :
        (r.path # RootPath) => (r.resp.status = 404 /\ ~IsGreeting(r.resp))

\* What a request to a path other than "/" is answered.
OtherPathAnswers ==
    \A r \in Responded :
        (r.path # RootPath) =>
            /\ r.called # "hello_confidential_world"
            /\ ~IsGreeting(r.resp)
            /\ (~UnderStatic(r.path) \/ r.method \in {"GET", "HEAD"})
                   => r.resp.status = 404
            /\ (UnderStatic(r.path) /\ r.method = "OPTIONS")
                   => (r.resp.status = 200 /\ r.resp.data = <<>>)
            /\ (UnderStatic(r.path) /\ r.method \notin {"GET", "HEAD", "OPTIONS"})
                   => r.resp.status = 405

\* C6 amended: a request to a path other than "/" never runs the greeting
\* view nor receives the greeting, and leaves the service listening (only a
\* termination from outside ends it); it gets 404 unless the path is under
\* /static/, the rule Flask(__name__) registers by itself, and the method is
\* neither GET nor HEAD: there OPTIONS gets the automatic 200 with an empty
\* body and any other method 405.
C6_OtherPathsNeverGreet ==
    /\ []OtherPathAnswers
    /\ [][(\E r \in BagToSet(inflight) : r.path # RootPath) =>
             \/ (pc' = pc /\ listener' = listener)
             \/ (pc' = "exited" /\ exitCause' = "signal")]_vars

C6_Witness ==
    /\ pc = "listening"
    /\ \E r \in Responded :
          r.method = "GET" /\ r.path = <<"unknown">> /\ r.resp.status = 404

\* C7: once app.run listens, no step but a termination from outside takes
\* the process out of the listening state, and the socket stays as bound.
C7_ListeningUntilTerminated ==
    [][(pc = "listening") =>
          \/ (pc' = "listening" /\ listener' = listener)
          \/ (pc' = "exited" /\ exitCause' = "signal")]_vars

C7_Witness ==
    /\ pc = "listening"
    /\ handled >= 1
    /\ \E r \in Responded : r.resp.status >= 400

\* C8: handling requests changes no state of the program but the requests
\* in flight: what the dispatch answers to GET "/" is the same after a step
\* as before it, and every response written is the one the dispatch would
\* give to that request after the step, whatever was handled meanwhile.
C8_Stateless ==
    [][(Serving /\ Serving') =>
          /\ url_map' = url_map
          /\ listener' = listener
          /\ environ' = environ
          /\ full_dispatch_request("GET", RootPath)' = full_dispatch_request("GET", RootPath)
          /\ \A r \in Responded : r.resp = full_dispatch_request(r.method, r.path)'.resp]_vars

C8_Witness ==
    /\ handled >= 1
    /\ \E r \in Responded : r.method = "GET" /\ r.path = RootPath
    /\ \E r \in BagToSet(inflight) : r.stage = "accepted"

\* C9: imported rather than run, the module never reads PORT, never binds a
\* socket and never blocks or exits: the import ends with the application
\* defined, its one registered view being the greeting on "/".
C9_ImportOnlyDefinesApp ==
    (~runAsMain) =>
        /\ portRaw = NotRead
        /\ portArg = NotRead
        /\ listener = NoSocket
        /\ pc \in {"load", "app", "defined", "imported"}
        /\ (pc = "imported") =>
               { r \in url_map : r.endpoint # "static" } =
                   { [rule |-> "/", endpoint |-> "hello_confidential_world",
                      methods |-> {"GET", "HEAD", "OPTIONS"}] }

C9_Witness ==
    /\ ~runAsMain /\ PortSet /\ pc = "imported"
    /\ \E r \in Responded : r.method = "GET" /\ r.path = RootPath /\ IsGreeting(r.resp)

\* C10: a request to "/" with a method outside GET, HEAD, OPTIONS never runs
\* the greeting view and is answered 405 with the allowed methods, not 404
\* and not the greeting.
C10_OtherMethodsAre405 ==
    \A r \in Responded :
        (r.path = RootPath /\ r.method \notin {"GET", "HEAD", "OPTIONS"}) =>
            /\ r.called = "none"
            /\ r.resp.status = 405
            /\ r.resp.allow = {"GET", "HEAD", "OPTIONS"}
            /\ ~IsGreeting(r.resp)

C10_Witness ==
    \E r \in Responded : r.method = "POST" /\ r.path = RootPath /\ r.resp.status = 405

====
